---- MODULE Spec2Model ----
(***************************************************************************)
(* A state-machine model of src/server/common/cssParser.ts: parseCSS, the  *)
(* recursive-descent selector parser over the token sequence produced by   *)
(* cssTokenizer, and serializeSelector.                                    *)
(*                                                                         *)
(* The recursive descent is unfolded into an explicit call stack: one      *)
(* frame per active call of consumeFunctionArguments (FA), consumeArgument *)
(* (ARG), consumeComplexSelector (CS), consumeSimpleSelector (SS) and      *)
(* consumeBuiltinFunctionArguments (BA).  One action is one basic block of *)
(* the code between two calls, or one iteration of a loop.                 *)
(*                                                                         *)
(* Text is a sequence of atoms (a word, a digit run or a punctuation       *)
(* character), so that string concatenation is sequence concatenation.     *)
(***************************************************************************)
EXTENDS Integers, Sequences, FiniteSets, TLC

VARIABLES
    tokens,     \* the token array of parseCSS (line 31); while css.tokenize runs, its output so far
    pos,        \* the cursor (line 64), 0-based
    stack,      \* the active calls of the consume* functions, innermost last
    status,     \* "start" | "tokenized" | "parsing" | "check" | "returned" | "error"
    err,        \* the Error thrown, when status = "error"
    result,     \* the local `result` of line 208, NoResult until it is assigned
    round,      \* 1: parse of the input; 2: parse of a re-serialized function
    orig        \* round 2: the custom function whose serialization is being parsed

vars == <<tokens, pos, stack, status, err, result, round, orig>>

\* ------------------------------------------------------------------ bounds

\* The longest token sequence (EOF not counted) drawn over each alphabet.
MaxWideLen == 2
MaxCoreLen == 3
MaxNestLen == 6
MaxCallLen == 5
MaxListLen == 5

\* ------------------------------------------------------------------ tokens

Token(kind, value, src) == [kind |-> kind, value |-> value, src |-> src]

EOFToken == Token("EOF", "", <<>>)
\* tokens[p] for p outside the array: JavaScript's undefined
Undefined == Token("undefined", "", <<>>)

IdentToken(name) == Token("Ident", name, <<name>>)
FunctionToken(name) == Token("Function", name, <<name, "(">>)
HashToken(name) == Token("Hash", name, <<"#", name>>)
StringToken(s) == Token("String", s, <<"\"", s, "\"">>)
NumberToken(n) == Token("Number", n, <<n>>)
PercentageToken(n) == Token("Percentage", n, <<n, "%">>)
DelimToken(c) == Token("Delim", c, <<c>>)
WhitespaceToken == Token("Whitespace", "", <<" ">>)
CommaToken == Token("Comma", "", <<",">>)
ColonToken == Token("Colon", "", <<":">>)
SemicolonToken == Token("Semicolon", "", <<";">>)
OpenParenToken == Token("OpenParen", "", <<"(">>)
CloseParenToken == Token("CloseParen", "", <<")">>)
OpenSquareToken == Token("OpenSquare", "", <<"[">>)
CloseSquareToken == Token("CloseSquare", "", <<"]">>)

\* The nesting alphabet: custom pseudo functions within complex selectors.
NestAlphabet ==
    { ColonToken, IdentToken("a"), FunctionToken("fn"), DelimToken(">"), CloseParenToken }

\* The call alphabet: pseudo functions and their literal arguments.
CallAlphabet ==
    { ColonToken, FunctionToken("fn"), FunctionToken("nth-child"), NumberToken("5"),
      CloseParenToken }

\* The list alphabet: complex selectors, combinators and selector lists.
ListAlphabet ==
    { IdentToken("a"), DelimToken(">"), WhitespaceToken, CommaToken }

\* The selector-grammar alphabet.
CoreAlphabet ==
    { ColonToken, IdentToken("a"), IdentToken("hover"), FunctionToken("nth-child"),
      NumberToken("5"), CommaToken, WhitespaceToken, OpenSquareToken, CloseSquareToken,
      OpenParenToken, CloseParenToken }

\* The whole alphabet.
WideAlphabet ==
    CoreAlphabet \cup NestAlphabet \cup
    { StringToken("s"), HashToken("a"), DelimToken("*"), DelimToken("."),
      DelimToken("~"), DelimToken("="), SemicolonToken, PercentageToken("5") }

\* Two tokens the tokenizer never emits next to each other: their source
\* texts, written one after the other, lex as one token (or as other tokens).
Merges(a, b) ==
    \/ a.kind \in {"Ident", "Hash"} /\ b.kind \in {"Ident", "Function", "Number", "Percentage", "OpenParen"}
    \/ a.kind = "Number" /\ b.kind \in {"Ident", "Function", "Number", "Percentage"}
    \/ a.kind = "Whitespace" /\ b.kind = "Whitespace"
    \/ a.kind = "Delim" /\ a.value = "." /\ b.kind \in {"Number", "Percentage"}

Lexable(s) == \A i \in 1..(Len(s) - 1) : ~Merges(s[i], s[i + 1])

over(s, alphabet, n) == Len(s) <= n /\ \A i \in 1..Len(s) : s[i] \in alphabet

\* What css.tokenize can have emitted for the modelled inputs (no EOF token yet).
TokenizerOutput(s) ==
    /\ Lexable(s)
    /\ \/ over(s, WideAlphabet, MaxWideLen)
       \/ over(s, CoreAlphabet, MaxCoreLen)
       \/ over(s, NestAlphabet, MaxNestLen)
       \/ over(s, CallAlphabet, MaxCallLen)
       \/ over(s, ListAlphabet, MaxListLen)

\* ------------------------------------------------------------------ tables

builtinCSSFilters ==
    { "active", "any-link", "checked", "blank", "default", "defined",
      "disabled", "empty", "enabled", "first", "first-child", "first-of-type",
      "fullscreen", "focus", "focus-visible", "focus-within", "hover",
      "indeterminate", "in-range", "invalid", "last-child", "last-of-type",
      "link", "only-child", "only-of-type", "optional", "out-of-range", "placeholder-shown",
      "read-only", "read-write", "required", "root", "target", "valid", "visited" }

builtinCSSFunctions ==
    { "dir", "lang", "nth-child", "nth-last-child", "nth-last-of-type", "nth-of-type" }

\* ------------------------------------------------------------------ cursor predicates

At(p) == IF p + 1 \in DOMAIN tokens THEN tokens[p + 1] ELSE Undefined

isIdent(p) == At(p).kind = "Ident"
isString(p) == At(p).kind = "String"
isNumber(p) == At(p).kind = "Number"
isComma(p) == At(p).kind = "Comma"
isCloseParen(p) == At(p).kind = "CloseParen"
isStar(p) == At(p).kind = "Delim" /\ At(p).value = "*"
isEOF(p) == At(p).kind = "EOF"
isClauseCombinator(p) == At(p).kind = "Delim" /\ At(p).value \in {">", "+", "~"}
isSelectorClauseEnd(p) ==
    isComma(p) \/ isCloseParen(p) \/ isEOF(p) \/ isClauseCombinator(p)
        \/ At(p).kind = "Whitespace"

RECURSIVE skipWhitespace(_)
skipWhitespace(p) == IF At(p).kind = "Whitespace" THEN skipWhitespace(p + 1) ELSE p

\* The token kinds the scan of lines 44-60 rejects.
UnsupportedKinds ==
    { "AtKeyword", "BadString", "BadURL", "Column", "CDO", "CDC", "Semicolon",
      "OpenCurly", "CloseCurly", "URL", "Percentage" }

\* The scan with the percentage test (line 59) left out.
isUnsupportedButPercentage(t) == t.kind \in UnsupportedKinds \ {"Percentage"}

isUnsupported(t) == t.kind \in UnsupportedKinds

\* tokens.find(...): the 0-based index of the first rejected token, -1 for none
unsupportedToken(ts) ==
    IF \E i \in 1..Len(ts) : isUnsupported(ts[i])
    THEN (CHOOSE i \in 1..Len(ts) :
              isUnsupported(ts[i]) /\ \A j \in 1..(i - 1) : ~isUnsupported(ts[j])) - 1
    ELSE -1

\* ------------------------------------------------------------------ values

NoError == [kind |-> "none", tok |-> -1]
NoResult == <<[type |-> "none"]>>
NoFunction == [name |-> "", args |-> <<>>]

Unexpected(p) == [kind |-> "Unexpected", tok |-> p]

NumberArg(v) == [type |-> "number", value |-> v]
StringArg(v) == [type |-> "string", value |-> v]
ComplexSelector(simple) == [type |-> "complex", simple |-> simple]
SimpleSelector(css, functions) == [css |-> css, functions |-> functions]

\* ------------------------------------------------------------------ frames

FAFrame == [fn |-> "FA", pc |-> "start", result |-> <<>>]
ARGFrame == [fn |-> "ARG", pc |-> "start", val |-> NoResult]
CSFrame == [fn |-> "CS", pc |-> "start", simple |-> <<>>]
\* open: the index of the function token whose arguments are being consumed
SSFrame == [fn |-> "SS", pc |-> "loop", rawCSSString |-> <<>>, functions |-> <<>>,
            name |-> "", open |-> -1]
BAFrame == [fn |-> "BA", pc |-> "loop", s |-> <<>>]

Top == stack[Len(stack)]
Callers == SubSeq(stack, 1, Len(stack) - 1)
SetTop(f) == [stack EXCEPT ![Len(stack)] = f]
Running(fn, pc) == status = "parsing" /\ stack # <<>> /\ Top.fn = fn /\ Top.pc = pc

\* The caller's frame once its callee has returned val.
Resume(f, val) ==
    CASE f.fn = "FA" -> [f EXCEPT !.result = Append(@, val), !.pc = "loop"]
      [] f.fn = "ARG" -> [f EXCEPT !.val = val, !.pc = "ret"]
      [] f.fn = "CS" ->
            [f EXCEPT !.simple = Append(@, [selector |-> val, combinator |-> ""]),
                      !.pc = "loop"]
      [] f.fn = "SS" /\ f.pc = "builtin" ->
            [f EXCEPT !.rawCSSString = @ \o <<":", f.name, "(">> \o val \o <<")">>,
                      !.pc = "closeParen"]
      [] f.fn = "SS" /\ f.pc = "custom" ->
            [f EXCEPT !.functions = Append(@, [name |-> f.name, args |-> val]),
                      !.pc = "closeParen"]

\* The innermost call returns val with the cursor at p.
Return(p, val) ==
    /\ pos' = p
    /\ IF Len(stack) = 1
       THEN /\ stack' = <<>>
            /\ result' = val
            /\ status' = "check"
       ELSE /\ stack' = [Callers EXCEPT ![Len(stack) - 1] = Resume(@, val)]
            /\ UNCHANGED <<result, status>>
    /\ UNCHANGED <<tokens, err, round, orig>>

\* throw unexpected() with the cursor at p
Throw(p) ==
    /\ pos' = p
    /\ status' = "error"
    /\ err' = Unexpected(p)
    /\ UNCHANGED <<tokens, stack, result, round, orig>>

\* The innermost call calls a function: its frame becomes f, the callee's g.
Call(p, f, g) ==
    /\ pos' = p
    /\ stack' = Append(SetTop(f), g)
    /\ UNCHANGED <<tokens, status, err, result, round, orig>>

\* The innermost call goes on with frame f and the cursor at p.
Step(p, f) ==
    /\ pos' = p
    /\ stack' = SetTop(f)
    /\ UNCHANGED <<tokens, status, err, result, round, orig>>

\* ------------------------------------------------------------------ parseCSS

Init ==
    /\ tokens = <<>>
    /\ pos = 0
    /\ stack = <<>>
    /\ status = "start"
    /\ err = NoError
    /\ result = NoResult
    /\ round = 1
    /\ orig = NoFunction

\* line 33: css.tokenize emits the next token of the selector
Emit ==
    /\ status = "start"
    /\ \E t \in WideAlphabet :
          /\ TokenizerOutput(Append(tokens, t))
          /\ tokens' = Append(tokens, t)
    /\ UNCHANGED <<pos, stack, status, err, result, round, orig>>

\* lines 33-35: css.tokenize returns, and an EOF token is pushed
Tokenize ==
    /\ status = "start"
    /\ tokens' = Append(tokens, EOFToken)
    /\ status' = "tokenized"
    /\ UNCHANGED <<pos, stack, err, result, round, orig>>

\* lines 36-43: css.tokenize throws; the error is rethrown with the selector,
\* and `tokens` is never assigned
TokenizeThrows ==
    /\ status = "start"
    /\ status' = "error"
    /\ tokens' = <<>>
    /\ err' = [kind |-> "Tokenizer", tok |-> -1]
    /\ UNCHANGED <<pos, stack, result, round, orig>>

\* lines 44-64 and the call of line 208
Guard ==
    /\ status = "tokenized"
    /\ IF unsupportedToken(tokens) # -1
       THEN /\ status' = "error"
            /\ err' = [kind |-> "Unsupported", tok |-> unsupportedToken(tokens)]
            /\ UNCHANGED <<pos, stack>>
       ELSE /\ status' = "parsing"
            /\ pos' = 0
            /\ stack' = <<FAFrame>>
            /\ UNCHANGED err
    /\ UNCHANGED <<tokens, result, round, orig>>

\* ------------------------------------------------------------------ consumeFunctionArguments

\* line 112: the first consumeArgument()
FAStart ==
    /\ Running("FA", "start")
    /\ Call(pos, [Top EXCEPT !.pc = "arg"], ARGFrame)

\* lines 113-120: one turn of the loop, or the return
FALoop ==
    /\ Running("FA", "loop")
    /\ LET p == skipWhitespace(pos) IN
       IF isComma(p)
       THEN Call(p + 1, [Top EXCEPT !.pc = "arg"], ARGFrame)
       ELSE Return(p, Top.result)

\* ------------------------------------------------------------------ consumeArgument

\* lines 124-129
ArgStart ==
    /\ Running("ARG", "start")
    /\ LET p == skipWhitespace(pos) IN
       IF isNumber(p) THEN Return(p + 1, NumberArg(At(p).value))
       ELSE IF isString(p) THEN Return(p + 1, StringArg(At(p).value))
       ELSE Call(p, [Top EXCEPT !.pc = "tail"], CSFrame)

\* line 129: return what consumeComplexSelector returned
ArgReturn ==
    /\ Running("ARG", "ret")
    /\ Return(pos, Top.val)

\* ------------------------------------------------------------------ consumeComplexSelector

\* lines 133-134: the first consumeSimpleSelector()
CSStart ==
    /\ Running("CS", "start")
    /\ Call(skipWhitespace(pos), [Top EXCEPT !.pc = "simple"], SSFrame)

\* The loop with the test for a clause end made before the next selector is
\* read, also after a combinator.
CSLoopTrailing ==
    /\ Running("CS", "loop")
    /\ LET p == skipWhitespace(pos)
           n == Len(Top.simple)
           q == IF isClauseCombinator(p) THEN skipWhitespace(p + 1) ELSE p
           f == IF isClauseCombinator(p)
                THEN [Top EXCEPT !.simple[n].combinator = At(p).value, !.pc = "simple"]
                ELSE [Top EXCEPT !.pc = "simple"]
       IN
       IF isSelectorClauseEnd(q) /\ ~isClauseCombinator(q)
       THEN Return(q, ComplexSelector(f.simple))
       ELSE Call(q, f, SSFrame)

\* lines 135-145: one turn of the loop, or the return
CSLoop ==
    /\ Running("CS", "loop")
    /\ LET p == skipWhitespace(pos)
           n == Len(Top.simple)
       IN
       IF isClauseCombinator(p)
       THEN Call(skipWhitespace(p + 1),
                 [Top EXCEPT !.simple[n].combinator = At(p).value, !.pc = "simple"],
                 SSFrame)
       ELSE IF isSelectorClauseEnd(p)
       THEN Return(p, ComplexSelector(Top.simple))
       ELSE Call(p, [Top EXCEPT !.pc = "simple"], SSFrame)

\* ------------------------------------------------------------------ consumeSimpleSelector

\* The test of line 196 with the negation of functions.length lost.
isEmptySelectorSlip(f) == f.rawCSSString = <<>> /\ f.functions # <<>>

\* line 196: neither raw CSS text nor a function
isEmptySelector(f) == f.rawCSSString = <<>> /\ f.functions = <<>>

\* lines 152, 196-198: the loop ends at a clause end
SSEnd ==
    /\ Running("SS", "loop")
    /\ isSelectorClauseEnd(pos)
    /\ IF isEmptySelector(Top)
       THEN Throw(pos)
       ELSE Return(pos, SimpleSelector(Top.rawCSSString, Top.functions))

\* lines 153-156: an identifier, `*` or a hash
SSPlain ==
    /\ Running("SS", "loop")
    /\ ~isSelectorClauseEnd(pos)
    /\ isIdent(pos) \/ isStar(pos) \/ At(pos).kind = "Hash"
    /\ Step(pos + 1, [Top EXCEPT !.rawCSSString = @ \o At(pos).src])

\* lines 157-162: `.` and an identifier
SSClass ==
    /\ Running("SS", "loop")
    /\ ~isSelectorClauseEnd(pos)
    /\ ~(isIdent(pos) \/ isStar(pos) \/ At(pos).kind = "Hash")
    /\ At(pos).kind = "Delim" /\ At(pos).value = "."
    /\ IF isIdent(pos + 1)
       THEN Step(pos + 2, [Top EXCEPT !.rawCSSString = @ \o <<".">> \o At(pos + 1).src])
       ELSE Throw(pos + 1)

\* The identifier looked up in the table of the pseudo-functions.
isBuiltinFilterWrongTable(v) == v \in builtinCSSFunctions

\* line 166: the identifier after `:` names a built-in pseudo-class
isBuiltinFilter(v) == v \in builtinCSSFilters

\* line 172: the function after `:` is a built-in pseudo-function
isBuiltinFunction(v) == v \in builtinCSSFunctions

\* lines 163-175, 180-182: `:` and an identifier or a function token
SSPseudo ==
    /\ Running("SS", "loop")
    /\ At(pos).kind = "Colon"
    /\ LET p == pos + 1 IN
       IF isIdent(p)
       THEN IF isBuiltinFilter(At(p).value)
            THEN Step(p + 1, [Top EXCEPT !.rawCSSString = @ \o <<":">> \o At(p).src])
            ELSE Step(p + 1, [Top EXCEPT !.functions =
                                  Append(@, [name |-> At(p).value, args |-> <<>>])])
       ELSE IF At(p).kind = "Function"
       THEN IF isBuiltinFunction(At(p).value)
            THEN Call(p + 1, [Top EXCEPT !.pc = "builtin", !.name = At(p).value, !.open = p],
                      BAFrame)
            ELSE Call(p + 1, [Top EXCEPT !.pc = "custom", !.name = At(p).value, !.open = p],
                      FAFrame)
       ELSE Throw(p)

\* lines 176-179: the close parenthesis after the arguments
SSCloseParen ==
    /\ Running("SS", "closeParen")
    /\ LET p == skipWhitespace(pos) IN
       IF ~isCloseParen(p)
       THEN Throw(p)
       ELSE Step(p + 1, [Top EXCEPT !.pc = "loop"])

\* lines 183-185: `[`
SSOpenSquare ==
    /\ Running("SS", "loop")
    /\ At(pos).kind = "OpenSquare"
    /\ Step(pos + 1, [Top EXCEPT !.rawCSSString = @ \o <<"[">>, !.pc = "bracket"])

\* line 186: the bracket scan goes on
inBracket(p) == At(p).kind # "CloseSquare" /\ ~isEOF(p)

\* The bracket scan without the test of line 188: end-of-input closes the bracket.
SSBracketLenient ==
    /\ Running("SS", "bracket")
    /\ IF inBracket(pos)
       THEN Step(pos + 1, [Top EXCEPT !.rawCSSString = @ \o At(pos).src])
       ELSE Step(IF isEOF(pos) THEN pos ELSE pos + 1,
                 [Top EXCEPT !.rawCSSString = @ \o <<"]">>, !.pc = "loop"])

\* The bracket scan that reads tokens[pos] without moving the cursor.
SSBracketStuck ==
    /\ Running("SS", "bracket")
    /\ IF inBracket(pos)
       THEN Step(pos, [Top EXCEPT !.rawCSSString = @ \o At(pos).src])
       ELSE IF At(pos).kind # "CloseSquare"
       THEN Throw(pos)
       ELSE Step(pos + 1, [Top EXCEPT !.rawCSSString = @ \o <<"]">>, !.pc = "loop"])

\* lines 186-191: one turn of the bracket scan, or its end
SSBracket ==
    /\ Running("SS", "bracket")
    /\ IF inBracket(pos)
       THEN Step(pos + 1, [Top EXCEPT !.rawCSSString = @ \o At(pos).src])
       ELSE IF At(pos).kind # "CloseSquare"
       THEN Throw(pos)
       ELSE Step(pos + 1, [Top EXCEPT !.rawCSSString = @ \o <<"]">>, !.pc = "loop"])

\* lines 192-194: any other token
SSOther ==
    /\ Running("SS", "loop")
    /\ ~isSelectorClauseEnd(pos)
    /\ ~(isIdent(pos) \/ isStar(pos) \/ At(pos).kind = "Hash")
    /\ ~(At(pos).kind = "Delim" /\ At(pos).value = ".")
    /\ At(pos).kind \notin {"Colon", "OpenSquare"}
    /\ Throw(pos)

\* ------------------------------------------------------------------ consumeBuiltinFunctionArguments

\* The scan of line 203 without the test for end-of-input.
inBuiltinArgumentsNoEOF(p) == ~isCloseParen(p)

\* line 203: the scan goes on
inBuiltinArguments(p) == ~isCloseParen(p) /\ ~isEOF(p)

\* lines 202-205: one turn of the scan, or the return
BAStep ==
    /\ Running("BA", "loop")
    /\ IF inBuiltinArguments(pos)
       THEN Step(pos + 1, [Top EXCEPT !.s = @ \o At(pos).src])
       ELSE Return(pos, Top.s)

\* ------------------------------------------------------------------ parseCSS, the end

isComplexSelector(arg) == arg.type = "complex"

\* The end of parseCSS without the test of line 211.
TopLevelOKAtEOF == isEOF(pos)

\* lines 209-213
TopLevelOK == isEOF(pos) /\ \A i \in 1..Len(result) : isComplexSelector(result[i])

TopLevelCheck ==
    /\ status = "check"
    /\ IF TopLevelOK
       THEN status' = "returned" /\ UNCHANGED err
       ELSE status' = "error" /\ err' = [kind |-> "Error", tok |-> -1]
    /\ UNCHANGED <<tokens, pos, stack, result, round, orig>>

\* ------------------------------------------------------------------ serializeSelector

RECURSIVE Join(_, _)
\* parts.join(sep)
Join(parts, sep) ==
    IF parts = <<>> THEN <<>>
    ELSE IF Len(parts) = 1 THEN parts[1]
    ELSE parts[1] \o sep \o Join(Tail(parts), sep)

RECURSIVE serializeSelector(_)
\* lines 216-230
serializeSelector(args) ==
    LET func(f) == <<":", f.name, "(">> \o serializeSelector(f.args) \o <<")">>
        simple(e) ==
            e.selector.css
                \o Join([k \in 1..Len(e.selector.functions) |-> func(e.selector.functions[k])], <<>>)
                \o (IF e.combinator # "" THEN <<" ", e.combinator>> ELSE <<>>)
        arg(x) ==
            IF x.type = "string" THEN <<"\"", x.value, "\"">>
            ELSE IF x.type = "number" THEN <<x.value>>
            ELSE Join([j \in 1..Len(x.simple) |-> simple(x.simple[j])], <<" ">>)
    IN Join([i \in 1..Len(args) |-> arg(args[i])], <<",", " ">>)

\* ------------------------------------------------------------------ css.tokenize

Punctuation ==
    { " ", "\"", "#", ",", ":", ";", "(", ")", "[", "]", "%", ".", "*", ">", "+", "~", "=" }
DigitRuns == { "5" }
isWord(c) == c \notin Punctuation /\ c \notin DigitRuns

RECURSIVE skipSpaces(_)
skipSpaces(text) ==
    IF text # <<>> /\ Head(text) = " " THEN skipSpaces(Tail(text)) ELSE text

RECURSIVE tokenize(_)
\* The tokenizer on a text of atoms; a quoted string holds at most one atom.
tokenize(text) ==
    IF text = <<>> THEN <<>>
    ELSE
    LET c == Head(text)
        rest == Tail(text)
        next == IF rest = <<>> THEN "" ELSE Head(rest)
    IN
    CASE c = " " -> <<WhitespaceToken>> \o tokenize(skipSpaces(rest))
      [] c = "\"" ->
            IF next = "\"" THEN <<StringToken("")>> \o tokenize(Tail(rest))
            ELSE IF Len(rest) >= 2 /\ rest[2] = "\""
            THEN <<StringToken(next)>> \o tokenize(Tail(Tail(rest)))
            ELSE <<Token("BadString", "", text)>>
      [] c \in DigitRuns ->
            IF next = "%" THEN <<PercentageToken(c)>> \o tokenize(Tail(rest))
            ELSE <<NumberToken(c)>> \o tokenize(rest)
      [] c = "#" /\ next # "" /\ isWord(next) -> <<HashToken(next)>> \o tokenize(Tail(rest))
      [] c = "," -> <<CommaToken>> \o tokenize(rest)
      [] c = ":" -> <<ColonToken>> \o tokenize(rest)
      [] c = ";" -> <<SemicolonToken>> \o tokenize(rest)
      [] c = "(" -> <<OpenParenToken>> \o tokenize(rest)
      [] c = ")" -> <<CloseParenToken>> \o tokenize(rest)
      [] c = "[" -> <<OpenSquareToken>> \o tokenize(rest)
      [] c = "]" -> <<CloseSquareToken>> \o tokenize(rest)
      [] isWord(c) /\ next = "(" -> <<FunctionToken(c)>> \o tokenize(Tail(rest))
      [] isWord(c) /\ next # "(" -> <<IdentToken(c)>> \o tokenize(rest)
      [] OTHER -> <<DelimToken(c)>> \o tokenize(rest)

\* ------------------------------------------------------------------ round trip

RECURSIVE functionsIn(_)
\* Every custom function of a tree, at any depth.
functionsIn(args) ==
    UNION { IF args[i].type # "complex" THEN {}
            ELSE UNION { UNION { {args[i].simple[j].selector.functions[k]}
                                   \cup functionsIn(args[i].simple[j].selector.functions[k].args)
                                 : k \in 1..Len(args[i].simple[j].selector.functions) }
                         : j \in 1..Len(args[i].simple) }
          : i \in 1..Len(args) }

\* The selector that consists of the one custom function f.
selectorOf(f) ==
    <<ComplexSelector(<<[selector |-> SimpleSelector(<<>>, <<f>>), combinator |-> ""]>>)>>

\* A custom function of the returned tree is serialized (line 224) and the
\* text is parsed again by parseCSS.
Reparse ==
    /\ status = "returned"
    /\ round = 1
    /\ \E f \in functionsIn(result) :
          /\ tokens' = Append(tokenize(serializeSelector(selectorOf(f))), EOFToken)
          /\ orig' = f
    /\ round' = 2
    /\ status' = "tokenized"
    /\ pos' = 0
    /\ stack' = <<>>
    /\ err' = NoError
    /\ result' = NoResult

\* A step of parseCSS once the tokenizer has returned.
ParseStep ==
    \/ Guard
    \/ FAStart \/ FALoop
    \/ ArgStart \/ ArgReturn
    \/ CSStart \/ CSLoop
    \/ SSEnd \/ SSPlain \/ SSClass \/ SSPseudo \/ SSCloseParen
    \/ SSOpenSquare \/ SSBracket \/ SSOther
    \/ BAStep
    \/ TopLevelCheck

Next == Emit \/ Tokenize \/ TokenizeThrows \/ ParseStep

Spec == Init /\ [][Next]_vars

NextRT == Next \/ Reparse

SpecRT == Init /\ [][NextRT]_vars

\* parseCSS is sequential code: a step of it that can be taken is taken.
SpecLive == Init /\ [][Next]_vars /\ WF_vars(ParseStep)

Done == status \in {"returned", "error"}

\* The tokenizer model agrees with the token sequences the inputs are drawn from.
LexConsistent ==
    (status # "start" /\ tokens # <<>> /\ round = 1) =>
        LET ts == SubSeq(tokens, 1, Len(tokens) - 1) IN
        tokenize(Join([i \in 1..Len(ts) |-> ts[i].src], <<>>)) = ts

\* ------------------------------------------------------------------ properties

Parsed == status \in {"parsing", "check", "returned", "error"} /\ tokens # <<>>

\* C1: for every custom function of a returned tree, the serialization of the
\* function parses again, and its argument list is the original argument list.
C1_RoundTrip ==
    (round = 2 /\ Done) => (status = "returned" /\ result = selectorOf(orig))

\* The token kinds the unsupported-token guard is to reject.
RejectedKinds ==
    { "AtKeyword", "BadString", "BadURL", "Column", "CDO", "CDC", "Semicolon",
      "OpenCurly", "CloseCurly", "URL", "Percentage" }

firstRejected ==
    CHOOSE i \in 1..Len(tokens) :
        /\ tokens[i].kind \in RejectedKinds
        /\ \A j \in 1..(i - 1) : tokens[j].kind \notin RejectedKinds

\* C2: once the guard has run on a token sequence that holds a token of a
\* rejected kind, parseCSS has failed with the 'Unsupported token' error that
\* names the first such token, the cursor was never advanced and no parsing
\* took place: no tree, no 'Unexpected token' error, no generic error.
C2_UnsupportedGuard ==
    (Parsed /\ \E i \in 1..Len(tokens) : tokens[i].kind \in RejectedKinds) =>
        /\ status = "error"
        /\ err = [kind |-> "Unsupported", tok |-> firstRejected - 1]
        /\ pos = 0
        /\ stack = <<>>
        /\ result = NoResult

\* `[;`: the rejected token is inside a square bracket, after the first token.
C2_Witness ==
    /\ status = "error"
    /\ err = [kind |-> "Unsupported", tok |-> 1]
    /\ tokens[1].kind = "OpenSquare"

\* C3: once the outermost argument list has been parsed, parseCSS returns the
\* tree exactly when the cursor is at the end-of-input token and every
\* top-level element is a complex selector; otherwise it fails with the
\* generic error, which names no token.  It returns in no other way.
C3_TopLevel ==
    /\ (Done /\ result # NoResult) =>
          /\ status = "returned" <=>
                (isEOF(pos) /\ \A i \in 1..Len(result) : result[i].type = "complex")
          /\ status = "error" => err = [kind |-> "Error", tok |-> -1]
    /\ status = "returned" => result # NoResult /\ stack = <<>>
    /\ (status = "error" /\ err.kind = "Error") => result # NoResult

\* `a, 5`: the cursor is at end-of-input and the second element is a number.
C3_Witness ==
    /\ status = "error"
    /\ err.kind = "Error"
    /\ isEOF(pos)
    /\ Len(result) = 2
    /\ result[1].type = "complex"
    /\ result[2].type = "number"

RECURSIVE nonEmptyTree(_)
\* Every complex selector of args, at any depth, has an element, and every
\* simple selector has raw CSS text or a function.
nonEmptyTree(args) ==
    \A i \in 1..Len(args) :
        args[i].type = "complex" =>
            /\ Len(args[i].simple) >= 1
            /\ \A j \in 1..Len(args[i].simple) :
                  LET sel == args[i].simple[j].selector IN
                  /\ sel.css # <<>> \/ sel.functions # <<>>
                  /\ \A k \in 1..Len(sel.functions) : nonEmptyTree(sel.functions[k].args)

\* C4: a returned selector list has at least one complex selector, every
\* complex selector in it has at least one element and every simple selector
\* has raw CSS text or a function; an input with no token but whitespace fails
\* with the 'Unexpected token' error.
C4_NonEmpty ==
    /\ status = "returned" => Len(result) >= 1 /\ nonEmptyTree(result)
    /\ (Done /\ tokens # <<>>
          /\ \A i \in 1..(Len(tokens) - 1) : tokens[i].kind = "Whitespace") =>
            status = "error" /\ err.kind = "Unexpected"

\* `:fn(a)`-like: a returned tree with a complex selector nested in a function.
C4_Witness ==
    /\ status = "returned"
    /\ result[1].simple[1].selector.functions # <<>>
    /\ result[1].simple[1].selector.functions[1].args # <<>>
    /\ result[1].simple[1].selector.functions[1].args[1].type = "complex"

\* A construct is open: a square bracket is being scanned, the arguments of a
\* pseudo-function are being consumed or its close parenthesis is awaited, or
\* a combinator has just been consumed and no token of the next simple
\* selector yet.
openConstruct(stk) ==
    \/ \E d \in 1..Len(stk) :
          stk[d].fn = "SS" /\ stk[d].pc \in {"bracket", "builtin", "custom", "closeParen"}
    \/ /\ Len(stk) >= 2
       /\ stk[Len(stk)].fn = "SS" /\ stk[Len(stk)].pc = "loop"
       /\ stk[Len(stk)].rawCSSString = <<>> /\ stk[Len(stk)].functions = <<>>
       /\ stk[Len(stk) - 1].fn = "CS" /\ stk[Len(stk) - 1].simple # <<>>
       /\ stk[Len(stk) - 1].simple[Len(stk[Len(stk) - 1].simple)].combinator # ""

C6_PseudoDispatch ==
    [][/\ (Running("SS", "loop") /\ At(pos).kind = "Colon") =>
            LET t == At(pos + 1)
                d == Len(stack)
            IN
            CASE t.kind = "Ident" /\ t.value \in builtinCSSFilters ->
                    /\ status' = "parsing" /\ Len(stack') = d
                    /\ stack'[d].rawCSSString = stack[d].rawCSSString \o <<":">> \o t.src
                    /\ stack'[d].functions = stack[d].functions
              [] t.kind = "Ident" /\ t.value \notin builtinCSSFilters ->
                    /\ status' = "parsing" /\ Len(stack') = d
                    /\ stack'[d].rawCSSString = stack[d].rawCSSString
                    /\ stack'[d].functions =
                          Append(stack[d].functions, [name |-> t.value, args |-> <<>>])
              [] t.kind = "Function" ->
                    /\ status' = "parsing" /\ Len(stack') = d + 1
                    /\ stack'[d].rawCSSString = stack[d].rawCSSString
                    /\ stack'[d].functions = stack[d].functions
                    /\ stack'[d].name = t.value
                    /\ stack'[d + 1].fn =
                          (IF t.value \in builtinCSSFunctions THEN "BA" ELSE "FA")
              [] OTHER ->
                    status' = "error" /\ err' = Unexpected(pos + 1)
       /\ (status = "parsing" /\ Len(stack) >= 2 /\ Len(stack') = Len(stack) - 1
             /\ stack[Len(stack) - 1].fn = "SS") =>
            LET d == Len(stack) - 1 IN
            IF stack[d].name \in builtinCSSFunctions
            THEN /\ Top.fn = "BA"
                 /\ stack'[d].functions = stack[d].functions
                 /\ stack'[d].rawCSSString =
                       stack[d].rawCSSString \o <<":", stack[d].name, "(">> \o Top.s \o <<")">>
            ELSE /\ Top.fn = "FA"
                 /\ stack'[d].rawCSSString = stack[d].rawCSSString
                 /\ stack'[d].functions =
                       Append(stack[d].functions,
                              [name |-> stack[d].name, args |-> Top.result])]_vars

\* `:a:fn(a`: no raw text, a function with no arguments from the identifier
\* and a function with its parsed argument from the function token.
C6_Witness ==
    /\ Running("SS", "closeParen")
    /\ Top.rawCSSString = <<>>
    /\ Len(Top.functions) = 2
    /\ Top.functions[1] = [name |-> "a", args |-> <<>>]
    /\ Top.functions[2].name = "fn"
    /\ Len(Top.functions[2].args) = 1

RECURSIVE matchingParen(_, _)
\* The index of the close parenthesis that brings the depth to 0, scanning
\* from index p at the given depth; -1 when there is none.
matchingParen(p, depth) ==
    IF At(p).kind \in {"EOF", "undefined"} THEN -1
    ELSE IF At(p).kind \in {"Function", "OpenParen"} THEN matchingParen(p + 1, depth + 1)
    ELSE IF At(p).kind = "CloseParen"
    THEN IF depth = 1 THEN p ELSE matchingParen(p + 1, depth - 1)
    ELSE matchingParen(p + 1, depth)

sourceOf(from, to) == Join([i \in 1..(to - from + 1) |-> At(from + i - 1).src], <<>>)

endsWith(text, tail) ==
    Len(text) >= Len(tail) /\ SubSeq(text, Len(text) - Len(tail) + 1, Len(text)) = tail

\* C7: when the close parenthesis of a built-in pseudo-function is consumed,
\* the raw text ends with `:name(`, the source text of every token up to the
\* close parenthesis that matches the function's open parenthesis, and `)`,
\* and the cursor is just after that close parenthesis.
C7_VerbatimArguments ==
    [][(Running("SS", "closeParen") /\ Top.name \in builtinCSSFunctions
          /\ status' = "parsing" /\ matchingParen(Top.open + 1, 1) # -1) =>
            LET m == matchingParen(Top.open + 1, 1) IN
            /\ pos' = m + 1
            /\ endsWith(stack'[Len(stack)].rawCSSString,
                        <<":", Top.name, "(">> \o sourceOf(Top.open + 1, m - 1) \o <<")">>)]_vars

isCombinator(t) == t.kind = "Delim" /\ t.value \in {">", "+", "~"}

RECURSIVE combinatorsPlaced(_)
\* In every complex selector of args, at any depth, the last element has the
\* empty combinator.
combinatorsPlaced(args) ==
    \A i \in 1..Len(args) :
        args[i].type = "complex" =>
            /\ args[i].simple[Len(args[i].simple)].combinator = ""
            /\ \A j \in 1..Len(args[i].simple) :
                  /\ args[i].simple[j].combinator \in {"", ">", "+", "~"}
                  /\ \A k \in 1..Len(args[i].simple[j].selector.functions) :
                        combinatorsPlaced(args[i].simple[j].selector.functions[k].args)

RECURSIVE Sum(_)
Sum(ns) == IF ns = <<>> THEN 0 ELSE Head(ns) + Sum(Tail(ns))

RECURSIVE combinatorsIn(_)
\* The number of elements of args, at any depth, that carry a combinator.
combinatorsIn(args) ==
    Sum([i \in 1..Len(args) |->
        IF args[i].type # "complex" THEN 0
        ELSE Sum([j \in 1..Len(args[i].simple) |->
                (IF args[i].simple[j].combinator # "" THEN 1 ELSE 0)
                + Sum([k \in 1..Len(args[i].simple[j].selector.functions) |->
                        combinatorsIn(args[i].simple[j].selector.functions[k].args)])])])

\* No token is captured verbatim: no square bracket, no built-in pseudo-function.
structural ==
    \A i \in 1..Len(tokens) :
        /\ tokens[i].kind # "OpenSquare"
        /\ ~(tokens[i].kind = "Function" /\ tokens[i].value \in builtinCSSFunctions)

\* The nearest token that is not whitespace before (dir = -1) or after index i.
RECURSIVE significant(_, _)
significant(i, dir) ==
    IF i + dir \notin DOMAIN tokens THEN Undefined
    ELSE IF tokens[i + dir].kind = "Whitespace" THEN significant(i + dir, dir)
    ELSE tokens[i + dir]

\* The combinator token at index i is leading, doubled or trailing.
misplaced(i) ==
    LET a == significant(i, -1)
        b == significant(i, 1)
    IN \/ a.kind \in {"undefined", "Comma", "Function"} \/ isCombinator(a)
       \/ b.kind \in {"EOF", "Comma", "CloseParen"} \/ isCombinator(b)

\* C8: in every complex selector of a returned tree, at any depth, the last
\* element has the empty combinator; and, when no token is captured verbatim,
\* the elements that carry a combinator are as many as the combinator tokens
\* of the input, none of which is leading, doubled or trailing.
C8_Combinators ==
    status = "returned" =>
        /\ combinatorsPlaced(result)
        /\ structural =>
              /\ \A i \in 1..Len(tokens) : isCombinator(tokens[i]) => ~misplaced(i)
              /\ combinatorsIn(result) =
                    Cardinality({i \in 1..Len(tokens) : isCombinator(tokens[i])})

\* `:fn(a>a)`: a combinator within the complex selector of a function argument.
C8_Witness ==
    /\ status = "returned"
    /\ result[1].simple[1].selector.functions # <<>>
    /\ result[1].simple[1].selector.functions[1].args # <<>>
    /\ result[1].simple[1].selector.functions[1].args[1].type = "complex"
    /\ Len(result[1].simple[1].selector.functions[1].args[1].simple) = 2
    /\ result[1].simple[1].selector.functions[1].args[1].simple[1].combinator = ">"

\* C9: once the token sequence is there, parseCSS ends, returning a tree or raising an error; every turn of a
\* loop that goes on moves the cursor forward; and the calls are nested no
\* deeper than the tokens consumed allow (two tokens, `:` and a function
\* token, are consumed before the argument list recurses).
C9_Termination ==
    /\ (status = "tokenized") ~> Done
    /\ [][(status = "parsing" /\ status' = "parsing"
             /\ Top.pc \in {"loop", "bracket", "closeParen"}
             /\ Len(stack') >= Len(stack)) => pos' > pos]_vars
    /\ [](status = "parsing" => Len(stack) <= 2 * pos + 5)

\* `:fn(:fn(`: the argument list is entered for the third time.
C9_Witness ==
    /\ status = "parsing"
    /\ Cardinality({d \in 1..Len(stack) : stack[d].fn = "FA"}) = 3

\* C10: the cursor is never below 0 nor beyond the end-of-input token, which is
\* the last token and is never consumed; it never decreases; the token an
\* 'Unexpected token' error quotes is inside the token sequence.
C10_CursorBound ==
    /\ [](Parsed =>
            /\ 0 <= pos /\ pos <= Len(tokens) - 1
            /\ tokens[Len(tokens)].kind = "EOF"
            /\ \A i \in 1..(Len(tokens) - 1) : tokens[i].kind # "EOF"
            /\ (status = "error" /\ err.kind = "Unexpected") =>
                  (0 <= err.tok /\ err.tok <= Len(tokens) - 1))
    /\ [][pos' >= pos]_vars

\* `[a,`: the bracket scan has stopped at the end-of-input token.
C10_Witness ==
    /\ status = "error"
    /\ stack # <<>>
    /\ Top.fn = "SS" /\ Top.pc = "bracket"
    /\ pos = Len(tokens) - 1
    /\ pos = 3
====
